---------------------------- MODULE Spec2Model ----------------------------
(***************************************************************************)
(* download.py: export one Notion page as HTML, wait for the export task,  *)
(* download and unpack the archive, rewrite it to index.html + assets/ and *)
(* merge-copy it into the directory the script lives in.                   *)
(*                                                                         *)
(* Strings (file names, HTML text) are sequences of one-character strings. *)
(* A directory tree is a function from names to entries; an entry is a     *)
(* file with its data or a directory with its files (two levels).          *)
(***************************************************************************)
EXTENDS Integers, Sequences, FiniteSets, TLC

VARIABLES
    pc,          \* [run -> position in main() / download_page()]
    token,       \* [run -> os.getenv("NOTION_TOKEN")]
    script,      \* [run -> what getTasks answers, poll after poll; the last answer repeats]
    polls,       \* [run -> calls of get_user_task_status made by the loop]
    sleeps,      \* [run -> calls of sleep(wait_time) made by the loop]
    task_status, \* [run -> the loop's task_status]
    export_link, \* [run -> export_link of download_page]
    block_id,    \* [run -> config["block_id"]]
    tmp_dir,     \* [run -> tmp_dir of download_page]
    log,         \* [run -> the steps the run has made, in order]
    err,         \* [run -> the exception that ended the run]
    tmp,         \* tempfile.gettempdir(): [directory name -> its content]
    deploy,      \* Path(__file__).parent, the deployment directory
    now,         \* datetime.now(), in seconds
    published    \* the run whose copytree returned normally last

vars == <<pc, token, script, polls, sleeps, task_status, export_link, block_id,
          tmp_dir, log, err, tmp, deploy, now, published>>

\* ------------------------------------------------------------------ bounds

MaxScript == 3      \* answers of the server before its last answer repeats
MaxPieces == 3      \* pieces an exported HTML text is made of
MaxClock == 2       \* seconds the clock may advance

Runs == {"r1", "r2"}
None == "None"
NoDir == <<>>          \* tmp_dir before it is assigned
NoEntry == [unbound |-> TRUE]      \* task_status before it is assigned

\* ------------------------------------------------------------------ names

DotHtml == <<".", "h", "t", "m", "l">>
IndexHtml == <<"i", "n", "d", "e", "x", ".", "h", "t", "m", "l">>
Assets == <<"a", "s", "s", "e", "t", "s">>
Readme == <<"R", "E", "A", "D", "M", "E", ".", "m", "d">>
StylesCss == <<"s", "t", "y", "l", "e", "s", ".", "c", "s", "s">>
Favicon == <<"f", "a", "v", "i", "c", "o", "n">>
FaviconIco == <<"f", "a", "v", "i", "c", "o", "n", ".", "i", "c", "o">>
ImgPng == <<"i", "m", "g", ".", "p", "n", "g">>
OldPng == <<"o", "l", "d", ".", "p", "n", "g">>
XTxt == <<"x", ".", "t", "x", "t">>
THtml == <<"t", ".", "h", "t", "m", "l">>

\* The text rewrite_html appends: the stylesheet link, then the favicon block.
StylesheetLink == <<"\n<link rel=\"stylesheet\" href=\"styles.css\" />">>
FaviconBlock == <<"\n\n\n<link rel=\"apple-touch-icon\" ...><meta name=\"theme-color\" content=\"#ffffff\">\n">>

\* ------------------------------------------------------------ file system

EmptyMap == [x \in {} |-> None]
File(data) == [kind |-> "file", data |-> data]
Dir(files) == [kind |-> "dir", files |-> files]
Map1(k, v) == [x \in {k} |-> v]
Merge(f, g) == [x \in (DOMAIN f) \cup (DOMAIN g) |-> IF x \in DOMAIN f THEN f[x] ELSE g[x]]
Without(f, k) == [x \in (DOMAIN f) \ {k} |-> f[x]]

IsFile(tree, n) == n \in DOMAIN tree /\ tree[n].kind = "file"
IsDir(tree, n) == n \in DOMAIN tree /\ tree[n].kind = "dir"

\* os.rename(src, dst) inside one directory.
Rename(tree, src, dst) ==
    IF src = <<>> THEN [tree |-> tree, err |-> "OSError"]
    ELSE IF src \notin DOMAIN tree THEN [tree |-> tree, err |-> "FileNotFoundError"]
    ELSE IF src = dst THEN [tree |-> tree, err |-> None]
    ELSE IF IsFile(tree, src) /\ IsDir(tree, dst) THEN [tree |-> tree, err |-> "IsADirectoryError"]
    ELSE IF IsDir(tree, src) /\ IsFile(tree, dst) THEN [tree |-> tree, err |-> "NotADirectoryError"]
    ELSE IF IsDir(tree, src) /\ IsDir(tree, dst) /\ tree[dst].files # EmptyMap
         THEN [tree |-> tree, err |-> "OSError"]
    ELSE [tree |-> Merge(Map1(dst, tree[src]), Without(tree, src)), err |-> None]

\* ---------------------------------------------------------------- strings

\* urllib.parse.quote of one character: letters, digits and "_.-~/" are kept.
QuoteChar(c) ==
    CASE c = " " -> <<"%", "2", "0">>
      [] c = "%" -> <<"%", "2", "5">>
      [] OTHER -> <<c>>

RECURSIVE Quote(_)
Quote(s) == IF s = <<>> THEN <<>> ELSE QuoteChar(Head(s)) \o Quote(Tail(s))

RECURSIVE Interleave(_, _)
Interleave(s, new) == IF s = <<>> THEN new ELSE new \o <<Head(s)>> \o Interleave(Tail(s), new)

\* str.replace(old, new): every occurrence, found left to right, none overlapping.
RECURSIVE StrReplace(_, _, _)
StrReplace(s, old, new) ==
    IF old = <<>> THEN Interleave(s, new)
    ELSE IF Len(s) < Len(old) THEN s
    ELSE IF SubSeq(s, 1, Len(old)) = old
         THEN new \o StrReplace(SubSeq(s, Len(old) + 1, Len(s)), old, new)
    ELSE <<Head(s)>> \o StrReplace(Tail(s), old, new)

\* ------------------------------------------------------------ rewrite_html

\* output_dir.glob("*.html"): the top-level names ending in ".html", files or not.
GlobHtml(tree) ==
    {n \in DOMAIN tree : Len(n) >= 5 /\ SubSeq(n, Len(n) - 4, Len(n)) = DotHtml}

\* html_path.name[:-5]
ExportName(html) == SubSeq(html, 1, Len(html) - 5)

\* A rewrite that looks for the name as it is, not percent-encoded.
NewHtmlDataUnquoted(html_data, name) ==
    StrReplace(html_data, name, Assets) \o StylesheetLink \o FaviconBlock

\* The new text of the HTML file: asset paths replaced, the two blocks appended.
NewHtmlData(html_data, name) ==
    StrReplace(html_data, Quote(name), Assets) \o StylesheetLink \o FaviconBlock

\* rewrite_html that takes the first match instead of asserting there is one only.
rewrite_html_first_match(tree) ==
    LET matches == GlobHtml(tree) IN
    IF matches = {} THEN [tree |-> tree, err |-> "IndexError"]
    ELSE
    LET html_path == CHOOSE n \in matches : TRUE
        name == ExportName(html_path)
    IN  IF IsDir(tree, html_path) THEN [tree |-> tree, err |-> "IsADirectoryError"]
        ELSE
        LET written == [tree EXCEPT ![html_path] = File(NewHtmlData(tree[html_path].data, name))]
            first == Rename(written, html_path, IndexHtml)
            second == Rename(first.tree, name, Assets)
        IN  IF first.err # None THEN first ELSE second

\* rewrite_html(output_dir) on the tree of output_dir: the tree it leaves and the
\* exception it raised, if any.
rewrite_html(tree) ==
    LET matches == GlobHtml(tree) IN
    IF Cardinality(matches) # 1 THEN [tree |-> tree, err |-> "AssertionError"]
    ELSE
    LET html_path == CHOOSE n \in matches : TRUE
        name == ExportName(html_path)
    IN  IF IsDir(tree, html_path) THEN [tree |-> tree, err |-> "IsADirectoryError"]
        ELSE
        LET written == [tree EXCEPT ![html_path] = File(NewHtmlData(tree[html_path].data, name))]
            first == Rename(written, html_path, IndexHtml)
            second == Rename(first.tree, name, Assets)
        IN  IF first.err # None THEN first ELSE second

\* ---------------------------------------------------------------- copytree

\* A copy that leaves the files dst already has.
CopyEntryKeepsExisting(src, dst, n) ==
    IF n \notin DOMAIN dst THEN src[n]
    ELSE IF src[n].kind = "dir" /\ dst[n].kind = "file" THEN dst[n]
    ELSE IF src[n].kind = "file" /\ dst[n].kind = "dir"
         THEN Dir(Merge(dst[n].files, Map1(n, src[n].data)))
    ELSE IF src[n].kind = "file" THEN dst[n]
    ELSE Dir(Merge(dst[n].files, src[n].files))

\* What copytree leaves at dst/n for the entry n of src. A file is copied over a
\* file, and into a directory of its name (copy2 with a directory as its target);
\* a directory is merged into a directory; a directory that meets a file is an
\* error (makedirs) that leaves the file.
CopyEntry(src, dst, n) ==
    IF n \notin DOMAIN dst THEN src[n]
    ELSE IF src[n].kind = "dir" /\ dst[n].kind = "file" THEN dst[n]
    ELSE IF src[n].kind = "file" /\ dst[n].kind = "dir"
         THEN Dir(Merge(Map1(n, src[n].data), dst[n].files))
    ELSE IF src[n].kind = "file" THEN src[n]
    ELSE Dir(Merge(src[n].files, dst[n].files))

CopyErrors(src, dst) ==
    {n \in (DOMAIN src) \cap (DOMAIN dst) : src[n].kind = "dir" /\ dst[n].kind = "file"}

\* shutil.copytree(src, dst, dirs_exist_ok=True): every entry is tried, the errors
\* are collected and raised together at the end.
copytree(src, dst) ==
    [tree |-> [n \in (DOMAIN src) \cup (DOMAIN dst) |->
                  IF n \in DOMAIN src THEN CopyEntry(src, dst, n) ELSE dst[n]],
     err |-> IF CopyErrors(src, dst) = {} THEN None ELSE "shutil.Error"]

\* ------------------------------------------------------------------ server

TaskId == "t1"
OtherTask == "t2"
Urls == {"u1", "u2"}

Pending(id) == [id |-> id, status |-> [type |-> "pending"]]
Failure(id) == [id |-> id, status |-> [type |-> "failure"]]
NoStatus(id) == [id |-> id]
NoType(id) == [id |-> id, status |-> [exportURL |-> "u1"]]
Complete(id, url) == [id |-> id, status |-> [type |-> "complete", exportURL |-> url]]
CompleteNoUrl(id) == [id |-> id, status |-> [type |-> "complete"]]

HttpError == [http |-> 500, results |-> <<>>]
Ok(results) == [http |-> 200, results |-> results]

\* The answers of getTasks the model draws from.
Answers ==
    { HttpError,
      Ok(<<Pending(OtherTask)>>),
      Ok(<<Pending(TaskId)>>),
      Ok(<<NoStatus(TaskId)>>),
      Ok(<<Failure(TaskId)>>),
      Ok(<<NoType(TaskId)>>),
      Ok(<<CompleteNoUrl(TaskId)>>),
      Ok(<<Complete(TaskId, "u1")>>),
      Ok(<<Complete(OtherTask, "u1"), Complete(TaskId, "u2"), Pending(TaskId)>>) }

RECURSIVE SeqsUpTo(_, _)
SeqsUpTo(S, n) ==
    IF n = 0 THEN {<<>>}
    ELSE LET shorter == SeqsUpTo(S, n - 1)
         IN  shorter \cup {Append(s, x) : s \in shorter, x \in S}

Scripts == SeqsUpTo(Answers, MaxScript) \ {<<>>}

\* ----------------------------------------------------------------- inputs

\* A pristine export: the page's HTML file and its asset directory.
Export(name, html_data, files) ==
    Merge(Map1(name \o DotHtml, File(html_data)), Map1(name, Dir(files)))

PageName == <<"a", " ", "b">>
PageHtml == <<"<", "a", "%", "2", "0", "b", "/", ">">>
PageFiles == Map1(ImgPng, <<"png-new">>)

\* What the export URL may serve: a zip of a tree, or bytes that are no zip.
Zip(tree) == [zip |-> TRUE, tree |-> tree]
NotZip == [zip |-> FALSE]
Bodies ==
    { Zip(Export(PageName, PageHtml, PageFiles)),
      Zip(Merge(Export(PageName, PageHtml, PageFiles), Map1(Readme, File(<<"readme-new">>)))),
      Zip(Merge(Export(PageName, PageHtml, PageFiles), Map1(THtml, File(<<"t">>)))),
      Zip(Map1(XTxt, File(<<"x">>))),
      NotZip }

\* The repository the script lives in, with a site published earlier.
Repo ==
    [n \in {Readme, StylesCss, Favicon, IndexHtml, Assets} |->
        CASE n = Readme -> File(<<"readme">>)
          [] n = StylesCss -> File(<<"css">>)
          [] n = Favicon -> Dir(Map1(FaviconIco, <<"ico">>))
          [] n = IndexHtml -> File(<<"html-old">>)
          [] n = Assets -> Dir(Map1(OldPng, <<"png-old">>))]

\* ---------------------------------------------------------------- one run

NoToken(t) == t = None \/ t = ""        \* "not token"

\* The steps of a run with a token, in the order of main() and download_page().
StageOrder == <<"config", "enqueue", "complete", "mkdir", "download", "extract", "rewrite", "publish">>

Logged(r, step) == log' = [log EXCEPT ![r] = Append(@, step)]
Goes(r, to, e) == pc' = [pc EXCEPT ![r] = to] /\ err' = [err EXCEPT ![r] = e]

\* A call whose exception is recorded and does not end the run.
OutcomeGoesOn(ok, to, e) == [pc |-> to, err |-> IF ok THEN None ELSE e]

\* A call that either returns or raises: where the run goes.
Outcome(ok, to, e) == IF ok THEN [pc |-> to, err |-> None] ELSE [pc |-> "failed", err |-> e]

MaxCount == MaxScript + 1
Count(n) == IF n < MaxCount THEN n + 1 ELSE n     \* the counters stop at MaxCount

\* config = load_notion_config(); token = os.getenv("NOTION_TOKEN")
LoadConfig(r) ==
    /\ pc[r] = "start"
    /\ \E ok \in BOOLEAN :
          LET out == Outcome(ok, "config", "ConfigError") IN Goes(r, out.pc, out.err)
    /\ Logged(r, "config")
    /\ UNCHANGED <<token, script, polls, sleeps, task_status, export_link, block_id,
                   tmp_dir, tmp, deploy, now, published>>

\* csrf_values = NotionClient.ask_otp(email=config["email"])
AskOtp(r) ==
    /\ pc[r] = "config"
    /\ NoToken(token[r])
    /\ \E ok \in BOOLEAN :
          LET out == Outcome(ok, "otp", "HTTPError") IN Goes(r, out.pc, out.err)
    /\ Logged(r, "ask_otp")
    /\ UNCHANGED <<token, script, polls, sleeps, task_status, export_link, block_id,
                   tmp_dir, tmp, deploy, now, published>>

\* GetToken without the return of line 215: the run goes on with the new token.
GetTokenFallsThrough(r) ==
    /\ pc[r] = "otp"
    /\ \E ok \in BOOLEAN :
          LET out == Outcome(ok, "config", "HTTPError") IN Goes(r, out.pc, out.err)
    /\ token' = [token EXCEPT ![r] = "tok"]
    /\ Logged(r, "get_token")
    /\ UNCHANGED <<script, polls, sleeps, task_status, export_link, block_id,
                   tmp_dir, tmp, deploy, now, published>>

\* otp = input(...); token = NotionClient.get_token(csrf_values, otp); return
GetToken(r) ==
    /\ pc[r] = "otp"
    /\ \E ok \in BOOLEAN :
          LET out == Outcome(ok, "done", "HTTPError") IN Goes(r, out.pc, out.err)
    /\ Logged(r, "get_token")
    /\ UNCHANGED <<token, script, polls, sleeps, task_status, export_link, block_id,
                   tmp_dir, tmp, deploy, now, published>>

\* client = NotionClient(token); task_id = self.launch_export_block_task(...)
Enqueue(r) ==
    /\ pc[r] = "config"
    /\ ~NoToken(token[r])
    /\ \E ok \in BOOLEAN :
          LET out == Outcome(ok, "poll", "HTTPError") IN Goes(r, out.pc, out.err)
    /\ Logged(r, "enqueue")
    /\ UNCHANGED <<token, script, polls, sleeps, task_status, export_link, block_id,
                   tmp_dir, tmp, deploy, now, published>>

\* The answer to the poll a run makes next.
Answer(r) ==
    script[r][IF polls[r] < Len(script[r]) THEN polls[r] + 1 ELSE Len(script[r])]

\* get_user_task_status that answers a task without status when the id is missing.
get_user_task_status_or_default(answer, task_id) ==
    LET matching == SelectSeq(answer.results, LAMBDA e : e.id = task_id) IN
    IF answer.http # 200 THEN [err |-> "HTTPError", entry |-> None]
    ELSE IF matching = <<>> THEN [err |-> None, entry |-> [id |-> task_id]]
    ELSE [err |-> None, entry |-> matching[1]]

\* get_user_task_status(task_id) on an answer: the entry it returns, or the exception.
get_user_task_status(answer, task_id) ==
    LET matching == SelectSeq(answer.results, LAMBDA e : e.id = task_id) IN
    IF answer.http # 200 THEN [err |-> "HTTPError", entry |-> None]
    ELSE IF matching = <<>> THEN [err |-> "IndexError", entry |-> None]
    ELSE [err |-> None, entry |-> matching[1]]

\* A loop that breaks as soon as the entry has a status, whatever its type.
LoopTestAnyStatus(entry) ==
    IF "status" \notin DOMAIN entry THEN "continue" ELSE "break"

\* The condition of the loop's break; reading a missing "type" raises KeyError.
LoopTest(entry) ==
    IF "status" \notin DOMAIN entry THEN "continue"
    ELSE IF "type" \notin DOMAIN entry.status THEN "KeyError"
    ELSE IF entry.status.type = "complete" THEN "break"
    ELSE "continue"

\* One pass of "while True" up to the break or the sleep.
Poll(r) ==
    /\ pc[r] = "poll"
    /\ polls' = [polls EXCEPT ![r] = Count(@)]
    /\ LET got == get_user_task_status(Answer(r), TaskId) IN
          IF got.err # None
          THEN Goes(r, "failed", got.err) /\ UNCHANGED task_status
          ELSE /\ task_status' = [task_status EXCEPT ![r] = got.entry]
               /\ LET test == LoopTest(got.entry) IN
                     CASE test = "break" -> Goes(r, "link", None)
                       [] test = "continue" -> Goes(r, "sleep", None)
                       [] OTHER -> Goes(r, "failed", test)
    /\ UNCHANGED <<token, script, sleeps, export_link, block_id,
                   tmp_dir, log, tmp, deploy, now, published>>

\* A loop with a bound on its attempts: the third sleep gives up instead.
SleepGivesUp(r) ==
    /\ pc[r] = "sleep"
    /\ sleeps' = [sleeps EXCEPT ![r] = Count(@)]
    /\ IF sleeps[r] >= 2 THEN Goes(r, "failed", "TimeoutError") ELSE Goes(r, "poll", None)
    /\ UNCHANGED <<token, script, polls, task_status, export_link, block_id,
                   tmp_dir, log, tmp, deploy, now, published>>

\* sleep(wait_time)
Sleep(r) ==
    /\ pc[r] = "sleep"
    /\ sleeps' = [sleeps EXCEPT ![r] = Count(@)]
    /\ Goes(r, "poll", None)
    /\ UNCHANGED <<token, script, polls, task_status, export_link, block_id,
                   tmp_dir, log, tmp, deploy, now, published>>

\* tmp_dir's name: the page id and the time to the second.
TmpDirName(block, time) == <<"export", block, time>>

\* export_link = task_status["status"]["exportURL"]; tmp_dir = gettempdir() / ...
ExportLink(r) ==
    /\ pc[r] = "link"
    /\ Logged(r, "complete")
    /\ IF "exportURL" \in DOMAIN task_status[r].status
       THEN /\ export_link' = [export_link EXCEPT ![r] = task_status[r].status.exportURL]
            /\ tmp_dir' = [tmp_dir EXCEPT ![r] = TmpDirName(block_id[r], now)]
            /\ Goes(r, "mkdir", None)
       ELSE /\ Goes(r, "failed", "KeyError")
            /\ UNCHANGED <<export_link, tmp_dir>>
    /\ UNCHANGED <<token, script, polls, sleeps, task_status, block_id,
                   tmp, deploy, now, published>>

\* mkdir(exist_ok=True): an existing directory is taken as it is.
MkdirNeverFails(dirs, d) == FALSE

\* Path.mkdir(): FileExistsError when the path exists.
MkdirFails(dirs, d) == d \in dirs

\* A directory of gettempdir(): who made it, output.zip and zip_extract (each
\* absent, {}, or present, {x}) and who wrote them.
NewDir(r) == [creator |-> r, zip |-> {}, zip_by |-> {}, tree |-> {}, tree_by |-> {}]
The(S) == CHOOSE x \in S : TRUE
OutputZip(r) == The(tmp[tmp_dir[r]].zip)
OutputDir(r) == The(tmp[tmp_dir[r]].tree)

\* tmp_dir.mkdir()
Mkdir(r) ==
    /\ pc[r] = "mkdir"
    /\ Logged(r, "mkdir")
    /\ IF MkdirFails(DOMAIN tmp, tmp_dir[r])
       THEN Goes(r, "failed", "FileExistsError") /\ UNCHANGED tmp
       ELSE /\ Goes(r, "download", None)
            /\ tmp' = IF tmp_dir[r] \in DOMAIN tmp THEN tmp
                      ELSE Merge(Map1(tmp_dir[r], NewDir(r)), tmp)
    /\ UNCHANGED <<token, script, polls, sleeps, task_status, export_link, block_id,
                   tmp_dir, deploy, now, published>>

\* requests.get(export_link, stream=True) written to tmp_dir / "output.zip": no
\* raise_for_status, so whatever body arrives is written; a broken transfer raises.
Download(r) ==
    /\ pc[r] = "download"
    /\ Logged(r, "download")
    /\ \E body \in Bodies, ok \in BOOLEAN :
          /\ tmp' = [tmp EXCEPT ![tmp_dir[r]].zip =
                        {[url |-> export_link[r], body |-> IF ok THEN body ELSE NotZip]},
                                ![tmp_dir[r]].zip_by = @ \cup {r}]
          /\ LET out == Outcome(ok, "extract", "ConnectionError") IN Goes(r, out.pc, out.err)
    /\ UNCHANGED <<token, script, polls, sleeps, task_status, export_link, block_id,
                   tmp_dir, deploy, now, published>>

\* zipfile.ZipFile(export_file_name).extractall(zip_extract_dir)
Extract(r) ==
    /\ pc[r] = "extract"
    /\ Logged(r, "extract")
    /\ LET body == OutputZip(r).body IN
          IF body.zip
          THEN /\ tmp' = [tmp EXCEPT ![tmp_dir[r]].tree = {body.tree},
                                     ![tmp_dir[r]].tree_by = @ \cup {r}]
               /\ Goes(r, "rewrite", None)
          ELSE Goes(r, "failed", "BadZipFile") /\ UNCHANGED tmp
    /\ UNCHANGED <<token, script, polls, sleeps, task_status, export_link, block_id,
                   tmp_dir, deploy, now, published>>

\* rewrite_html(output_dir)
Rewrite(r) ==
    /\ pc[r] = "rewrite"
    /\ Logged(r, "rewrite")
    /\ LET res == rewrite_html(OutputDir(r)) IN
          /\ tmp' = [tmp EXCEPT ![tmp_dir[r]].tree = {res.tree}]
          /\ LET out == Outcome(res.err = None, "publish", res.err) IN Goes(r, out.pc, out.err)
    /\ UNCHANGED <<token, script, polls, sleeps, task_status, export_link, block_id,
                   tmp_dir, deploy, now, published>>

\* shutil.copytree(src=output_dir, dst=Path(__file__).parent, dirs_exist_ok=True)
Publish(r) ==
    /\ pc[r] = "publish"
    /\ Logged(r, "publish")
    /\ LET res == copytree(OutputDir(r), deploy) IN
          /\ deploy' = res.tree
          /\ published' = IF res.err = None THEN r ELSE published
          /\ LET out == Outcome(res.err = None, "done", res.err) IN Goes(r, out.pc, out.err)
    /\ UNCHANGED <<token, script, polls, sleeps, task_status, export_link, block_id,
                   tmp_dir, tmp, now>>

\* ------------------------------------------------------- one run of main()

Tokens == {None, "", "tok"}      \* NOTION_TOKEN unset, set to nothing, set

\* One run, r1, at the start of main(); the repository holds an earlier site.
Init ==
    /\ pc = [r \in Runs |-> IF r = "r1" THEN "start" ELSE "absent"]
    /\ token \in [Runs -> Tokens] /\ token["r2"] = None
    /\ script \in [Runs -> Scripts] /\ script["r2"] = <<HttpError>>
    /\ polls = [r \in Runs |-> 0]
    /\ sleeps = [r \in Runs |-> 0]
    /\ task_status = [r \in Runs |-> NoEntry]
    /\ export_link = [r \in Runs |-> None]
    /\ block_id = [r \in Runs |-> "b1"]
    /\ tmp_dir = [r \in Runs |-> NoDir]
    /\ log = [r \in Runs |-> <<>>]
    /\ err = [r \in Runs |-> None]
    /\ tmp = EmptyMap
    /\ deploy = Repo
    /\ now = 0
    /\ published = None

Step(r) ==
    \/ LoadConfig(r)
    \/ AskOtp(r)
    \/ GetToken(r)
    \/ Enqueue(r)
    \/ Poll(r)
    \/ Sleep(r)
    \/ ExportLink(r)
    \/ Mkdir(r)
    \/ Download(r)
    \/ Extract(r)
    \/ Rewrite(r)
    \/ Publish(r)

Next == \E r \in Runs : Step(r)

Spec == Init /\ [][Next]_vars

\* The process keeps running: a poll or a sleep it has reached is made.
LiveSpec == Spec /\ \A r \in Runs : WF_vars(Poll(r)) /\ WF_vars(Sleep(r))

\* ------------------------------------------------- rewrite_html on its own

\* The names of the exports the rewrite is tried on.
ExportNames == {<<"s", "s">>, <<"a", " ", "b">>, <<"i", "n", "d", "e", "x">>, Assets}

\* An exported text is made of pieces: the name percent-encoded, the name as it
\* is, and single characters.
Pieces(name) == {Quote(name), name, <<"/">>, <<"s">>}

RECURSIVE Concat(_)
Concat(ss) == IF ss = <<>> THEN <<>> ELSE Head(ss) \o Concat(Tail(ss))

Texts(name) == {Concat(ps) : ps \in SeqsUpTo(Pieces(name), MaxPieces)}

\* The trees an archive may unpack to around one export: the pristine one, and the
\* ones that miss or add an entry.
Layouts(name, text) ==
    LET pristine == Export(name, text, PageFiles)
        html == name \o DotHtml
    IN  { pristine,
          Merge(pristine, Map1(XTxt, File(<<"x">>))),
          Map1(html, File(text)),
          Merge(Map1(html, File(text)), Map1(name, File(<<"f">>))),
          Merge(pristine, Map1(THtml, File(<<"t">>))),
          Merge(pristine, Map1(THtml, Dir(EmptyMap))),
          Map1(name, Dir(PageFiles)),
          Merge(Map1(html, Dir(EmptyMap)), Map1(name, Dir(PageFiles))),
          Merge(pristine, Map1(Assets, File(<<"f">>))),
          Merge(pristine, Map1(Assets, Dir(EmptyMap))),
          Merge(pristine, Map1(Assets, Dir(Map1(OldPng, <<"png-old">>)))) }

RewriteInputs ==
    UNION {UNION {Layouts(name, text) : text \in Texts(name)} : name \in ExportNames}

\* A run that has come to step s with the tree t extracted (r1), or with no step
\* made (any other run).
AtStep(s, trees) ==
    /\ pc = [r \in Runs |-> IF r \in DOMAIN trees THEN s ELSE "absent"]
    /\ token = [r \in Runs |-> IF r \in DOMAIN trees THEN "tok" ELSE None]
    /\ script = [r \in Runs |-> <<Ok(<<Complete(TaskId, "u1")>>)>>]
    /\ polls = [r \in Runs |-> IF r \in DOMAIN trees THEN 1 ELSE 0]
    /\ sleeps = [r \in Runs |-> 0]
    /\ task_status = [r \in Runs |-> IF r \in DOMAIN trees THEN Complete(TaskId, "u1") ELSE NoEntry]
    /\ export_link = [r \in Runs |-> IF r \in DOMAIN trees THEN "u1" ELSE None]
    /\ block_id = [r \in Runs |-> IF r = "r1" THEN "b1" ELSE "b2"]
    /\ tmp_dir = [r \in Runs |-> IF r \in DOMAIN trees THEN TmpDirName(block_id[r], 0) ELSE NoDir]
    /\ err = [r \in Runs |-> None]
    /\ tmp = [d \in {TmpDirName(block_id[r], 0) : r \in DOMAIN trees} |->
                LET r == CHOOSE x \in DOMAIN trees : TmpDirName(block_id[x], 0) = d
                IN  [creator |-> r, zip |-> {[url |-> "u1", body |-> Zip(trees[r].zipped)]},
                     zip_by |-> {r}, tree |-> {trees[r].tree}, tree_by |-> {r}]]
    /\ now = 0
    /\ published = None

\* One run that has extracted its archive and is about to call rewrite_html.
InitRewrite ==
    /\ \E t \in RewriteInputs : AtStep("rewrite", Map1("r1", [zipped |-> t, tree |-> t]))
    /\ log = [r \in Runs |-> IF r = "r1" THEN SubSeq(StageOrder, 1, 6) ELSE <<>>]
    /\ deploy = Repo

NextRewrite == \E r \in Runs : Rewrite(r)

SpecRewrite == InitRewrite /\ [][NextRewrite]_vars

\* ------------------------------------------------- the publish on its own

OtherHtml == <<"<", "/", ">">>
OtherFiles == Merge(Map1(ImgPng, <<"png-other">>), Map1(XTxt, <<"x">>))

\* The exports that get published: two texts, three asset directories, and at
\* the top nothing more, a README.md, or a file named like the favicon directory.
PublishExports ==
    {Merge(Export(PageName, html, files), extra) :
        html \in {PageHtml, OtherHtml},
        files \in {PageFiles, OtherFiles, EmptyMap},
        extra \in {EmptyMap, Map1(Readme, File(<<"readme-new">>)),
                   Map1(Favicon, File(<<"f1">>)), Map1(Favicon, File(<<"f2">>))}}

\* The deployment directory before: with an earlier site, without one, and with
\* a file where the site's assets directory goes.
DeployDirs ==
    { Repo,
      Without(Without(Repo, IndexHtml), Assets),
      Merge(Map1(Assets, File(<<"f">>)), Repo) }

\* Two runs, each with its export rewritten, each about to publish.
InitPublish ==
    /\ \E t1 \in PublishExports, t2 \in PublishExports :
          AtStep("publish", [r \in Runs |->
              LET t == IF r = "r1" THEN t1 ELSE t2
              IN  [zipped |-> t, tree |-> rewrite_html(t).tree]])
    /\ log = [r \in Runs |-> SubSeq(StageOrder, 1, 7)]
    /\ deploy \in DeployDirs

NextPublish == \E r \in Runs : Publish(r)

SpecPublish == InitPublish /\ [][NextPublish]_vars

\* ------------------------------------------------- two runs at the same time

Blocks == {"b1", "b2"}

\* A directory an earlier run left in gettempdir(): nothing removes them.
LeftBehind ==
    Map1(TmpDirName("b1", 0),
         [creator |-> "earlier", zip |-> {[url |-> "u1", body |-> NotZip]},
          zip_by |-> {"earlier"}, tree |-> {}, tree_by |-> {}])

\* Two runs, each with its export task complete, each about to name its directory.
InitConc ==
    /\ pc = [r \in Runs |-> "link"]
    /\ token = [r \in Runs |-> "tok"]
    /\ script = [r \in Runs |-> <<Ok(<<Complete(TaskId, "u1")>>)>>]
    /\ polls = [r \in Runs |-> 1]
    /\ sleeps = [r \in Runs |-> 0]
    /\ task_status = [r \in Runs |-> Complete(TaskId, "u1")]
    /\ export_link = [r \in Runs |-> None]
    /\ block_id \in [Runs -> Blocks]
    /\ tmp_dir = [r \in Runs |-> NoDir]
    /\ log = [r \in Runs |-> SubSeq(StageOrder, 1, 2)]
    /\ err = [r \in Runs |-> None]
    /\ tmp \in {EmptyMap, LeftBehind}
    /\ deploy = Repo
    /\ now = 0
    /\ published = None

\* A second passes.
Tick ==
    /\ now < MaxClock
    /\ now' = now + 1
    /\ UNCHANGED <<pc, token, script, polls, sleeps, task_status, export_link, block_id,
                   tmp_dir, log, err, tmp, deploy, published>>

NextConc ==
    \/ Tick
    \/ \E r \in Runs : ExportLink(r) \/ Mkdir(r) \/ Download(r) \/ Extract(r)

SpecConc == InitConc /\ [][NextConc]_vars

\* ----------------------------------------------------------------- claims

StepsOf(r) == {log[r][i] : i \in DOMAIN log[r]}
IsPrefix(s, t) == Len(s) <= Len(t) /\ s = SubSeq(t, 1, Len(s))
AuthSteps == {"ask_otp", "get_token"}
ExportSteps == {"enqueue", "complete", "mkdir", "download", "extract", "rewrite", "publish"}

\* The answers that carry the polled task with a status that is not complete.
NotCompleteAnswers == {Ok(<<Pending(TaskId)>>), Ok(<<NoStatus(TaskId)>>), Ok(<<Failure(TaskId)>>)}
\* The answers that carry the polled task as complete, and the export URL of each.
CompleteAnswers ==
    {Ok(<<Complete(TaskId, "u1")>>),
     Ok(<<Complete(OtherTask, "u1"), Complete(TaskId, "u2"), Pending(TaskId)>>)}
UrlOfAnswer(a) == IF a = Ok(<<Complete(TaskId, "u1")>>) THEN "u1" ELSE "u2"
\* The answers that do not carry the polled task.
MissingAnswers == {Ok(<<Pending(OtherTask)>>)}

\* The first k-1 answers of the script are not complete: the loop reaches poll k.
ReachesPoll(s, k) == k \in 1..Len(s) /\ \A i \in 1..(k - 1) : s[i] \in NotCompleteAnswers
PastLoop(r) == pc[r] = "link" \/ "complete" \in StepsOf(r)

\* C1: the two branches of main() exclude each other. A run without a token
\* (NOTION_TOKEN unset or empty) makes no enqueue, poll, sleep, download, rewrite
\* or publish step and leaves the deployment directory alone; it asks for the
\* one-time password, then exchanges it, and when it returns it has made exactly
\* these two calls. A run with a token never asks for a one-time password and
\* never exchanges one.
C1_BranchesExclusive ==
    \A r \in Runs :
        /\ (pc[r] # "absent" /\ token[r] \in {None, ""}) =>
              /\ StepsOf(r) \cap ExportSteps = {}
              /\ polls[r] = 0 /\ sleeps[r] = 0
              /\ deploy = Repo /\ tmp = EmptyMap
              /\ IsPrefix(log[r], <<"config", "ask_otp", "get_token">>)
              /\ pc[r] = "done" => log[r] = <<"config", "ask_otp", "get_token">>
        /\ token[r] \notin {None, ""} => StepsOf(r) \cap AuthSteps = {}
        /\ ~(StepsOf(r) \cap AuthSteps # {} /\ (StepsOf(r) \cap ExportSteps # {} \/ polls[r] > 0))

C1_Witness ==
    /\ token["r1"] = None /\ pc["r1"] = "done"
    /\ log["r1"] = <<"config", "ask_otp", "get_token">>

\* C2: when the first k-1 answers carry the task with a status that is not
\* complete and answer k carries it as complete with an export URL, the loop makes
\* exactly k polls and k-1 sleeps (one sleep after each poll that was not complete,
\* none after the complete one), and the export link, and the URL the archive is
\* downloaded from, are the export URL of answer k.
C2_PollsAndSleeps ==
    \A r \in Runs : \A k \in 1..Len(script[r]) :
        (ReachesPoll(script[r], k) /\ script[r][k] \in CompleteAnswers) =>
            /\ polls[r] <= k
            /\ pc[r] = "sleep" => (polls[r] = sleeps[r] + 1 /\ polls[r] < k)
            /\ pc[r] = "poll" => polls[r] = sleeps[r]
            /\ PastLoop(r) =>
                  /\ polls[r] = k /\ sleeps[r] = k - 1
                  /\ task_status[r].status.exportURL = UrlOfAnswer(script[r][k])
                  /\ export_link[r] \in {None, UrlOfAnswer(script[r][k])}
                  /\ pc[r] \notin {"link", "failed"} => export_link[r] = UrlOfAnswer(script[r][k])
                  /\ \A d \in DOMAIN tmp :
                        \A z \in tmp[d].zip :
                            r \in tmp[d].zip_by => z.url = UrlOfAnswer(script[r][k])

C2_Witness ==
    /\ pc["r1"] = "done" /\ published = "r1"
    /\ polls["r1"] = 3 /\ sleeps["r1"] = 2
    /\ Len(script["r1"]) = 3 /\ script["r1"][3] \in CompleteAnswers
    /\ OutputZip("r1").url = "u2"

\* C3: when answer k does not carry the polled task (and the loop reaches poll
\* k), poll k raises, the run ends there with that error, and nothing follows:
\* no poll beyond k, no sleep after it, no later step, no change of the
\* deployment directory.
C3_MissingTaskIsFatal ==
    \A r \in Runs : \A k \in 1..Len(script[r]) :
        (ReachesPoll(script[r], k) /\ script[r][k] \in MissingAnswers) =>
            /\ polls[r] <= k /\ sleeps[r] <= k - 1
            /\ polls[r] = k => (pc[r] = "failed" /\ err[r] = "IndexError")
            /\ StepsOf(r) \cap ExportSteps \subseteq {"enqueue"}
            /\ deploy = Repo /\ tmp = EmptyMap

C3_Witness ==
    /\ Len(script["r1"]) >= 2 /\ script["r1"][2] \in MissingAnswers
    /\ polls["r1"] = 2 /\ sleeps["r1"] = 1
    /\ pc["r1"] = "failed" /\ err["r1"] = "IndexError"

\* C8: a run with a token makes its steps in the one order enqueue, poll until
\* complete, make the directory, download, extract, rewrite, publish; a step is
\* made only while no earlier step has failed, a failed run makes no further step,
\* and the deployment directory changes only in the publish step, so a run that
\* fails before it leaves the deployment directory as it was.
C8_StagesInOrder ==
    /\ [](\A r \in Runs :
            (pc[r] # "absent" /\ token[r] \notin {None, ""}) =>
                /\ IsPrefix(log[r], StageOrder)
                /\ polls[r] > 0 => "enqueue" \in StepsOf(r)
                /\ "complete" \in StepsOf(r) => polls[r] > 0
                /\ err[r] # None => pc[r] = "failed"
                /\ "publish" \notin StepsOf(r) => deploy = Repo
                /\ pc[r] = "done" => log[r] = StageOrder)
    /\ [][\A r \in Runs :
            /\ pc[r] = "failed" => (pc'[r] = "failed" /\ log'[r] = log[r] /\ polls'[r] = polls[r])
            /\ log'[r] # log[r] => err[r] = None
            /\ (deploy' # deploy /\ pc[r] # "absent") =>
                  (pc[r] = "publish" /\ log'[r] = Append(log[r], "publish"))]_vars

C8_Witness ==
    /\ pc["r1"] = "failed" /\ err["r1"] = "AssertionError"
    /\ log["r1"] = SubSeq(StageOrder, 1, 7)
    /\ deploy = Repo

EventuallyComplete(s) == \E k \in 1..Len(s) : ReachesPoll(s, k) /\ s[k] \in CompleteAnswers
NeverComplete(s) == \A i \in 1..Len(s) : s[i] \in NotCompleteAnswers

\* C9: the loop has no bound on its attempts and is left normally only on a poll
\* whose status type is "complete". When the answers carry the task and one of
\* them is complete, the loop ends and the run goes on to the download; when they
\* carry the task and none is ever complete (pending, another type, no status),
\* the run polls and sleeps for ever and never downloads, rewrites or publishes.
C9_LoopEndsOnlyOnComplete ==
    /\ [](\A r \in Runs :
            /\ PastLoop(r) =>
                  /\ "status" \in DOMAIN task_status[r]
                  /\ "type" \in DOMAIN task_status[r].status
                  /\ task_status[r].status.type = "complete"
            /\ NeverComplete(script[r]) =>
                  /\ pc[r] \notin {"link", "mkdir", "download", "extract", "rewrite", "publish"}
                  /\ StepsOf(r) \cap ExportSteps \subseteq {"enqueue"}
                  /\ polls[r] > 0 => pc[r] \in {"poll", "sleep"}
                  /\ deploy = Repo)
    /\ \A r \in Runs :
            /\ (pc[r] = "poll" /\ EventuallyComplete(script[r])) ~> PastLoop(r)
            /\ (pc[r] = "poll" /\ NeverComplete(script[r])) ~> (pc[r] = "sleep")
            /\ (pc[r] = "sleep" /\ NeverComplete(script[r])) ~> (pc[r] = "poll")

C9_Witness ==
    /\ NeverComplete(script["r1"])
    /\ pc["r1"] = "sleep"
    /\ polls["r1"] = MaxCount /\ sleeps["r1"] = MaxCount

\* The places in text where old occurs.
Occurrences(text, old) ==
    {i \in 1..(Len(text) - Len(old) + 1) : SubSeq(text, i, i + Len(old) - 1) = old}

\* chosen are the occurrences a replacement takes: an occurrence is taken unless
\* it overlaps one taken before it, so every occurrence is taken or overlaps one.
TakesEvery(chosen, text, old) ==
    \A i \in Occurrences(text, old) :
        i \in chosen <=> ~\E j \in chosen : j < i /\ i < j + Len(old)

\* text from place p on, each chosen occurrence of old replaced by new.
RECURSIVE Substituted(_, _, _, _, _)
Substituted(text, old, new, chosen, p) ==
    IF p > Len(text) THEN <<>>
    ELSE IF p \in chosen THEN new \o Substituted(text, old, new, chosen, p + Len(old))
    ELSE <<text[p]>> \o Substituted(text, old, new, chosen, p + 1)

\* The HTML files at the top of a tree.
HtmlFiles(tree) ==
    {n \in DOMAIN tree :
        /\ tree[n].kind = "file"
        /\ Len(n) >= 5
        /\ \A i \in 1..5 : n[Len(n) - 5 + i] = DotHtml[i]}

\* The tree the archive of run r held, as it was extracted.
Extracted(r) == OutputZip(r).body.tree
Rewritten(r) == "rewrite" \in StepsOf(r)

\* A tree that holds the HTML file name.html, the directory name, and no more.
Pristine(tree, name) ==
    /\ name # <<>>
    /\ DOMAIN tree = {name \o DotHtml, name}
    /\ IsFile(tree, name \o DotHtml)
    /\ IsDir(tree, name)

C5_RewriteNeedsOneHtml ==
    \A r \in Runs :
        (Rewritten(r) /\ Cardinality(HtmlFiles(Extracted(r))) # 1) =>
            /\ pc[r] = "failed" /\ err[r] # None
            /\ OutputDir(r) = Extracted(r)

C5_Witness ==
    /\ Rewritten("r1")
    /\ Cardinality(HtmlFiles(Extracted("r1"))) = 2
    /\ pc["r1"] = "failed" /\ err["r1"] = "AssertionError"

\* The paths of the files of a tree, and what each file holds.
FilePaths(tree) ==
    {<<n>> : n \in {m \in DOMAIN tree : tree[m].kind = "file"}}
        \cup UNION {{<<n, f>> : f \in DOMAIN tree[n].files} :
                        n \in {m \in DOMAIN tree : tree[m].kind = "dir"}}
DataAt(tree, path) ==
    IF Len(path) = 1 THEN tree[path[1]].data ELSE tree[path[1]].files[path[2]]
\* The paths that occur in a tree: its files and its directories.
Paths(tree) == FilePaths(tree) \cup {<<n>> : n \in DOMAIN tree}

Publishing(r) == pc[r] = "publish" /\ pc'[r] # "publish"

\* C6: a publish is a merge-copy. Every file the deployment directory held before
\* it is still a file there after it, and if its path does not occur in the tree
\* that was published, it holds what it held; so for any sequence of publishes.
C6_PublishKeepsOtherFiles ==
    [][\A r \in Runs :
          Publishing(r) =>
              \A path \in FilePaths(deploy) :
                  /\ path \in FilePaths(deploy')
                  /\ path \notin Paths(OutputDir(r)) =>
                        DataAt(deploy', path) = DataAt(deploy, path)]_vars

\* What a publish does keep (C6): no file is deleted, and a file whose path does
\* not occur in the published tree holds what it held unless it is the file D/D
\* of a directory D of which the tree has a file of the same name at its top.
PublishKeepsFilesButFileIntoDirectory ==
    [][\A r \in Runs :
          Publishing(r) =>
              \A path \in FilePaths(deploy) :
                  /\ path \in FilePaths(deploy')
                  /\ (/\ path \notin Paths(OutputDir(r))
                      /\ ~(Len(path) = 2 /\ path[1] = path[2] /\ IsFile(OutputDir(r), path[1]))) =>
                        DataAt(deploy', path) = DataAt(deploy, path)]_vars

C10_OwnTemporaryDirectory ==
    /\ \A d \in DOMAIN tmp :
          /\ tmp[d].zip_by \subseteq {tmp[d].creator}
          /\ tmp[d].tree_by \subseteq {tmp[d].creator}
    /\ \A r \in Runs :
          /\ pc[r] \in {"download", "extract", "rewrite", "publish", "done"} =>
                (tmp_dir[r] \in DOMAIN tmp /\ tmp[tmp_dir[r]].creator = r)
          /\ (pc[r] = "mkdir" /\ tmp_dir[r] \in DOMAIN tmp) => tmp[tmp_dir[r]].creator # r
          /\ err[r] = "FileExistsError" =>
                /\ pc[r] = "failed"
                /\ \A d \in DOMAIN tmp :
                      r \notin tmp[d].zip_by \cup tmp[d].tree_by \cup {tmp[d].creator}
    /\ \A r1 \in Runs : \A r2 \in Runs \ {r1} :
          (tmp_dir[r1] # NoDir /\ tmp_dir[r1] = tmp_dir[r2]) =>
              ~(/\ pc[r1] \in {"download", "extract", "rewrite"}
                /\ pc[r2] \in {"download", "extract", "rewrite"})

C10_Witness ==
    /\ block_id["r1"] = block_id["r2"]
    /\ tmp_dir["r1"] # NoDir /\ tmp_dir["r1"] = tmp_dir["r2"]
    /\ pc["r1"] = "rewrite"
    /\ pc["r2"] = "failed" /\ err["r2"] = "FileExistsError"
    /\ tmp[tmp_dir["r1"]].tree_by = {"r1"}

=============================================================================
